---- MODULE Spec2Model ----
(***************************************************************************)
(* Model of the extraction engine of app/document_processor.py            *)
(* (DocumentProcessor): field resolution, table classification,           *)
(* transaction and balance extraction, the text fallback parser and the   *)
(* form record's time-in-business computation.                            *)
(*                                                                         *)
(* Python strings are modelled as sequences of one-character strings, so  *)
(* that strip, lower, replace, "in", find, slicing and the regular        *)
(* expressions are computed character by character as the code does.      *)
(***************************************************************************)
EXTENDS Integers, Sequences, FiniteSets, TLC

(***************************************************************************)
(* Python str primitives                                                   *)
(***************************************************************************)

\* a string literal as a sequence of characters
Chars(s) == [i \in 1..Len(s) |-> SubSeq(s, i, i)]

DigitChars == <<"0", "1", "2", "3", "4", "5", "6", "7", "8", "9">>

IsDigit(c) == \E i \in 1..10 : DigitChars[i] = c

\* value of a digit character
DigitVal(c) == (CHOOSE i \in 1..10 : DigitChars[i] = c) - 1

UpperChars == Chars("ABCDEFGHIJKLMNOPQRSTUVWXYZ")

LowerChars == Chars("abcdefghijklmnopqrstuvwxyz")

\* str.lower() on one character
LowerChar(c) ==
    IF \E i \in 1..26 : UpperChars[i] = c
    THEN LowerChars[CHOOSE i \in 1..26 : UpperChars[i] = c]
    ELSE c

\* str.lower()
Lower(s) == [i \in 1..Len(s) |-> LowerChar(s[i])]

\* the characters str.strip() removes
IsSpace(c) == c \in {" ", "\t", "\n", "\r"}

RECURSIVE LStrip(_)
LStrip(s) ==
    IF s = <<>> THEN <<>>
    ELSE IF IsSpace(Head(s)) THEN LStrip(Tail(s)) ELSE s

RECURSIVE RStrip(_)
RStrip(s) ==
    IF s = <<>> THEN <<>>
    ELSE IF IsSpace(s[Len(s)]) THEN RStrip(SubSeq(s, 1, Len(s) - 1)) ELSE s

\* str.strip()
Strip(s) == RStrip(LStrip(s))

\* str.replace(c, '') for a one-character c
RECURSIVE RemoveChar(_, _)
RemoveChar(s, c) ==
    IF s = <<>> THEN <<>>
    ELSE IF Head(s) = c THEN RemoveChar(Tail(s), c)
    ELSE <<Head(s)>> \o RemoveChar(Tail(s), c)

\* does sub occur in s at 1-based position i
OccursAt(s, sub, i) ==
    /\ i >= 1
    /\ i + Len(sub) - 1 <= Len(s)
    /\ \A k \in 1..Len(sub) : s[i + k - 1] = sub[k]

SetMin(S) == CHOOSE x \in S : \A y \in S : x <= y

SetMax(S) == CHOOSE x \in S : \A y \in S : y <= x

\* Python's  sub in s
Contains(s, sub) == \E i \in 1..(Len(s) + 1) : OccursAt(s, sub, i)

\* str.rfind(sub): 0-based index of the last occurrence, -1 if none
RFind(s, sub) ==
    LET at == {i \in 1..(Len(s) + 1) : OccursAt(s, sub, i)}
    IN  IF at = {} THEN -1 ELSE SetMax(at) - 1

\* Python slice s[a:b] for 0-based a, b (negative indices count from the
\* end, out-of-range indices are clipped, an empty range gives "")
ClipIndex(n, len) ==
    IF n < 0 THEN (IF n + len < 0 THEN 0 ELSE n + len)
    ELSE IF n > len THEN len ELSE n

PySlice(s, a, b) ==
    LET lo == ClipIndex(a, Len(s))
        hi == ClipIndex(b, Len(s))
    IN  IF lo >= hi THEN <<>> ELSE SubSeq(s, lo + 1, hi)

\* sep.join(parts)
RECURSIVE Join(_, _)
Join(parts, sep) ==
    IF parts = <<>> THEN <<>>
    ELSE IF Len(parts) = 1 THEN parts[1]
    ELSE parts[1] \o sep \o Join(Tail(parts), sep)

\* str.split('\n')
RECURSIVE SplitLines(_)
SplitLines(s) ==
    IF \E i \in 1..Len(s) : s[i] = "\n"
    THEN LET i == SetMin({k \in 1..Len(s) : s[k] = "\n"})
         IN  <<SubSeq(s, 1, i - 1)>> \o SplitLines(SubSeq(s, i + 1, Len(s)))
    ELSE <<s>>

\* number of leading digit characters of s from 1-based position i
\* (long runs are counted a block at a time to keep the recursion shallow)
RECURSIVE DigitRun(_, _)
DigitRun(s, i) ==
    IF i < 1 \/ i > Len(s) THEN 0
    ELSE IF ~IsDigit(s[i]) THEN 0
    ELSE IF i + 31 <= Len(s) /\ \A k \in i..(i + 31) : IsDigit(s[k])
    THEN 32 + DigitRun(s, i + 32)
    ELSE 1 + DigitRun(s, i + 1)

(***************************************************************************)
(* Python float: float(str), abs, comparison, int(float)                   *)
(*                                                                         *)
(* A float is [kind, neg, mag]: kind "num" is a finite value of magnitude  *)
(* mag hundredths, "inf" and "nan" are the IEEE specials, "err" stands for *)
(* the ValueError float() raises.  Magnitudes saturate at MagCap; the      *)
(* decimal grammar modelled is  [sign] digits [. digits] | [sign] . digits *)
(* and the words nan, inf, infinity (no exponent, no underscore: the       *)
(* inputs used here contain neither).                                      *)
(***************************************************************************)

\* largest magnitude (in hundredths) represented exactly
MagCap == 2000000000

\* integer parts with more significant digits than this exceed MagCap
MaxExactDigits == 8

\* a decimal string with more integer digits than this converts to inf
FloatMaxDigits == 309

FErr == [kind |-> "err", neg |-> FALSE, mag |-> 0]

FNan == [kind |-> "nan", neg |-> FALSE, mag |-> 0]

FInf(n) == [kind |-> "inf", neg |-> n, mag |-> 0]

FNum(n, m) == [kind |-> "num", neg |-> n, mag |-> m]

SatStep(acc, d) ==
    IF acc > (MagCap - 9) \div 10 THEN MagCap ELSE acc * 10 + d

\* value of the digit string s[i..j] continued from acc, saturating
RECURSIVE DigitsValue(_, _, _, _)
DigitsValue(s, i, j, acc) ==
    IF i > j THEN acc
    ELSE DigitsValue(s, i + 1, j, SatStep(acc, DigitVal(s[i])))

\* number of leading "0" characters of s from position i up to j
RECURSIVE ZeroRun(_, _, _)
ZeroRun(s, i, j) ==
    IF i > j THEN 0
    ELSE IF s[i] # "0" THEN 0
    ELSE IF i + 31 <= j /\ \A k \in i..(i + 31) : s[k] = "0"
    THEN 32 + ZeroRun(s, i + 32, j)
    ELSE 1 + ZeroRun(s, i + 1, j)

\* the unsigned decimal body of float(): digits [. digits] | . digits
PyFloatBody(r, n) ==
    LET ni   == DigitRun(r, 1)
        dot  == ni + 1 <= Len(r) /\ r[ni + 1] = "."
        nf   == IF dot THEN DigitRun(r, ni + 2) ELSE 0
        used == ni + (IF dot THEN 1 ELSE 0) + nf
        sig  == ni - ZeroRun(r, 1, ni)
        f1   == IF nf >= 1 THEN DigitVal(r[ni + 2]) ELSE 0
        f2   == IF nf >= 2 THEN DigitVal(r[ni + 3]) ELSE 0
        whole == IF sig > MaxExactDigits THEN MagCap
                 ELSE DigitsValue(r, ni - sig + 1, ni, 0)
    IN  IF used # Len(r) \/ ni + nf = 0 THEN FErr
        ELSE IF sig > FloatMaxDigits THEN FInf(n)
        ELSE IF sig = FloatMaxDigits /\ DigitVal(r[ni - sig + 1]) >= 2 THEN FInf(n)
        ELSE FNum(n, SatStep(SatStep(whole, f1), f2))

\* float(s)
PyFloat(s) ==
    LET t    == Strip(s)
        sgn  == t # <<>> /\ t[1] \in {"+", "-"}
        n    == t # <<>> /\ t[1] = "-"
        r    == IF sgn THEN Tail(t) ELSE t
        w    == Lower(r)
    IN  IF w = Chars("nan") THEN [FNan EXCEPT !.neg = n]
        ELSE IF w = Chars("inf") \/ w = Chars("infinity") THEN FInf(n)
        ELSE PyFloatBody(r, n)

\* abs(x)
PyAbs(x) == [x EXCEPT !.neg = FALSE]

\* x >= 0
GeZero(x) ==
    \/ x.kind = "num" /\ (~x.neg \/ x.mag = 0)
    \/ x.kind = "inf" /\ ~x.neg

\* lo <= abs(x) <= hi for finite bounds given in hundredths
AbsInRange(x, lo, hi) == x.kind = "num" /\ lo <= x.mag /\ x.mag <= hi

\* abs(x) > abs(y) for values that are not nan
AbsGreater(x, y) ==
    \/ x.kind = "inf" /\ y.kind = "num"
    \/ x.kind = "num" /\ y.kind = "num" /\ x.mag > y.mag

(***************************************************************************)
(* The regular expressions of the text fallback parser and of the          *)
(* time-in-business text                                                   *)
(***************************************************************************)

IsDateSep(s, i) == i >= 1 /\ i <= Len(s) /\ s[i] \in {"/", "-"}

Min(a, b) == IF a < b THEN a ELSE b

\* \d{1,2}[/-]\d{1,2}(?:[/-]\d{2,4})? anchored at 1-based position i, the
\* first group taking n1 digits: the 1-based position after the match, or 0
DateMatchWith(s, i, n1) ==
    LET p2 == i + n1 + 1
        r2 == DigitRun(s, p2)
        p3 == p2 + Min(r2, 2)
        r3 == DigitRun(s, p3 + 1)
    IN  IF DigitRun(s, i) < n1 \/ ~IsDateSep(s, i + n1) \/ r2 = 0 THEN 0
        ELSE IF IsDateSep(s, p3) /\ r3 >= 2 THEN p3 + 1 + Min(r3, 4)
        ELSE p3

\* greedy \d{1,2}: two digits first, one digit on backtracking
DateMatchAt(s, i) ==
    IF ~IsDigit(s[i]) THEN 0
    ELSE IF DateMatchWith(s, i, 2) # 0 THEN DateMatchWith(s, i, 2)
    ELSE DateMatchWith(s, i, 1)

\* re.search(r'\d{1,2}[/-]\d{1,2}(?:[/-]\d{2,4})?', s): the leftmost match;
\* start and end are 0-based as in dm.start(), dm.end()
DateSearch(s) ==
    LET at == {k \in 1..Len(s) : DateMatchAt(s, k) # 0} IN
    IF at # {}
    THEN LET i == SetMin(at)
         IN  [found |-> TRUE, start |-> i - 1, end |-> DateMatchAt(s, i) - 1,
              group |-> SubSeq(s, i, DateMatchAt(s, i) - 1)]
    ELSE [found |-> FALSE, start |-> 0, end |-> 0, group |-> <<>>]

\* length of the run of [\d,] characters from position i
RECURSIVE DigitCommaRun(_, _)
DigitCommaRun(s, i) ==
    IF i <= Len(s) /\ (IsDigit(s[i]) \/ s[i] = ",")
    THEN 1 + DigitCommaRun(s, i + 1) ELSE 0

\* \$?([-]?[\d,]+\.?\d*) anchored at position i: [ok, gstart, stop] where
\* the group is s[gstart..stop-1]
AmountMatchAt(s, i) ==
    LET g  == IF i <= Len(s) /\ s[i] = "$" THEN i + 1 ELSE i
        q  == IF g <= Len(s) /\ s[g] = "-" THEN g + 1 ELSE g
        n  == DigitCommaRun(s, q)
        d  == q + n
        e  == IF d <= Len(s) /\ s[d] = "." THEN d + 1 ELSE d
    IN  [ok |-> n >= 1, gstart |-> g, stop |-> e + DigitRun(s, e)]

\* re.findall(r'\$?([-]?[\d,]+\.?\d*)', s) scanning from position i
RECURSIVE AmountFindAll(_, _)
AmountFindAll(s, i) ==
    IF i > Len(s) THEN <<>>
    ELSE LET m == AmountMatchAt(s, i)
         IN  IF m.ok
             THEN <<SubSeq(s, m.gstart, m.stop - 1)>> \o AmountFindAll(s, m.stop)
             ELSE AmountFindAll(s, i + 1)

\* re.findall(r'\d+\.?\d*', s)[0], or <<>> when there is no match
FirstNumber(s) ==
    IF \E i \in 1..Len(s) : IsDigit(s[i])
    THEN LET i == CHOOSE k \in 1..Len(s) :
                     IsDigit(s[k]) /\ (k = 1 \/ ~IsDigit(s[k - 1]))
                     /\ \A j \in 1..(k - 1) : ~IsDigit(s[j])
             d == i + DigitRun(s, i)
             e == IF d <= Len(s) /\ s[d] = "." THEN d + 1 ELSE d
         IN  SubSeq(s, i, e + DigitRun(s, e) - 1)
    ELSE <<>>

(***************************************************************************)
(* datetime: strptime, calendar arithmetic, strftime("%Y-%m-%d")           *)
(***************************************************************************)

MonthNames ==
    <<Chars("january"), Chars("february"), Chars("march"), Chars("april"),
      Chars("may"), Chars("june"), Chars("july"), Chars("august"),
      Chars("september"), Chars("october"), Chars("november"),
      Chars("december")>>

\* the year strptime assumes when the format has no year directive
StrptimeDefaultYear == 1900

\* %y maps 00..68 to 2000..2068 and 69..99 to 1969..1999
TwoDigitYearPivot == 68

StrpFail == [ok |-> FALSE, Y |-> StrptimeDefaultYear, m |-> 1, d |-> 1, hasY |-> FALSE]

StrpStart == [StrpFail EXCEPT !.ok = TRUE]

\* s[i..i+n-1] clipped to s
Peek(s, i, n) == SubSeq(s, i, Min(i + n - 1, Len(s)))

TwoDigits(s, i) == DigitVal(s[i]) * 10 + DigitVal(s[i + 1])

\* run of regex \s characters from position i
RECURSIVE SpaceRun(_, _)
SpaceRun(s, i) ==
    IF i <= Len(s) /\ IsSpace(s[i]) THEN 1 + SpaceRun(s, i + 1) ELSE 0

\* the ways directive dir can match s at position i, in the order the
\* regular expression built by _strptime tries them: [n, acc] records
StrpCandidates(dir, s, i, acc) ==
    LET r == DigitRun(s, i) IN
    CASE dir = "Y" ->
           IF r >= 4
           THEN <<[n |-> 4, acc |-> [acc EXCEPT !.hasY = TRUE,
                     !.Y = TwoDigits(s, i) * 100 + TwoDigits(s, i + 2)]]>>
           ELSE <<>>
      [] dir = "y" ->
           IF r >= 2
           THEN <<[n |-> 2, acc |-> [acc EXCEPT !.hasY = TRUE,
                     !.Y = IF TwoDigits(s, i) <= TwoDigitYearPivot
                           THEN 2000 + TwoDigits(s, i)
                           ELSE 1900 + TwoDigits(s, i)]]>>
           ELSE <<>>
      [] dir = "m" ->
           (IF r >= 2 /\ TwoDigits(s, i) \in 1..12
            THEN <<[n |-> 2, acc |-> [acc EXCEPT !.m = TwoDigits(s, i)]]>>
            ELSE <<>>)
           \o
           (IF r >= 1 /\ s[i] # "0"
            THEN <<[n |-> 1, acc |-> [acc EXCEPT !.m = DigitVal(s[i])]]>>
            ELSE <<>>)
      [] dir = "d" ->
           (IF r >= 2 /\ TwoDigits(s, i) \in 1..31
            THEN <<[n |-> 2, acc |-> [acc EXCEPT !.d = TwoDigits(s, i)]]>>
            ELSE <<>>)
           \o
           (IF r >= 1 /\ s[i] # "0"
            THEN <<[n |-> 1, acc |-> [acc EXCEPT !.d = DigitVal(s[i])]]>>
            ELSE <<>>)
           \o
           (IF i + 1 <= Len(s) /\ s[i] = " " /\ IsDigit(s[i + 1]) /\ s[i + 1] # "0"
            THEN <<[n |-> 2, acc |-> [acc EXCEPT !.d = DigitVal(s[i + 1])]]>>
            ELSE <<>>)
      [] dir = "B" ->
           IF \E k \in 1..12 : Lower(Peek(s, i, Len(MonthNames[k]))) = MonthNames[k]
           THEN LET k == CHOOSE k \in 1..12 :
                            Lower(Peek(s, i, Len(MonthNames[k]))) = MonthNames[k]
                IN  <<[n |-> Len(MonthNames[k]), acc |-> [acc EXCEPT !.m = k]]>>
           ELSE <<>>
      [] dir = "b" ->
           IF \E k \in 1..12 : Lower(Peek(s, i, 3)) = SubSeq(MonthNames[k], 1, 3)
           THEN LET k == CHOOSE k \in 1..12 :
                            Lower(Peek(s, i, 3)) = SubSeq(MonthNames[k], 1, 3)
                IN  <<[n |-> 3, acc |-> [acc EXCEPT !.m = k]]>>
           ELSE <<>>
      [] OTHER -> <<>>

\* match format f from position fi against s from position si; the whole
\* of s must be consumed.  A space in the format is \s+, any other
\* character outside a directive is itself.
RECURSIVE StrpMatch(_, _, _, _, _)
RECURSIVE StrpFirst(_, _, _, _, _, _)
StrpFirst(cands, k, f, fi, s, si) ==
    IF k > Len(cands) THEN StrpFail
    ELSE LET r == StrpMatch(f, fi, s, si + cands[k].n, cands[k].acc)
         IN  IF r.ok THEN r ELSE StrpFirst(cands, k + 1, f, fi, s, si)

StrpMatch(f, fi, s, si, acc) ==
    IF fi > Len(f) THEN (IF si > Len(s) THEN acc ELSE StrpFail)
    ELSE IF f[fi] = "%"
    THEN StrpFirst(StrpCandidates(f[fi + 1], s, si, acc), 1, f, fi + 2, s, si)
    ELSE IF IsSpace(f[fi])
    THEN LET run == SpaceRun(s, si)
             cands == [k \in 1..run |-> [n |-> run - k + 1, acc |-> acc]]
         IN  StrpFirst(cands, 1, f, fi + 1, s, si)
    ELSE IF si <= Len(s) /\ LowerChar(s[si]) = LowerChar(f[fi])
    THEN StrpMatch(f, fi + 1, s, si + 1, acc)
    ELSE StrpFail

IsLeap(y) == y % 4 = 0 /\ (y % 100 # 0 \/ y % 400 = 0)

DaysInMonth(y, m) ==
    IF m = 2 THEN (IF IsLeap(y) THEN 29 ELSE 28)
    ELSE IF m \in {4, 6, 9, 11} THEN 30 ELSE 31

\* datetime.strptime(s, fmt): ok is FALSE where it raises ValueError (no
\* match, unconverted data, or a day the month does not have)
PyStrptime(s, fmt) ==
    LET r == StrpMatch(Chars(fmt), 1, s, 1, StrpStart)
    IN  IF r.ok /\ r.Y >= 1 /\ r.d <= DaysInMonth(r.Y, r.m) THEN r ELSE StrpFail

\* the first format of fmts, from index k on, that parses s
RECURSIVE FirstFormat(_, _, _)
FirstFormat(s, fmts, k) ==
    IF k > Len(fmts) THEN [ok |-> FALSE, k |-> 0, dt |-> StrpFail]
    ELSE IF PyStrptime(s, fmts[k]).ok
    THEN [ok |-> TRUE, k |-> k, dt |-> PyStrptime(s, fmts[k])]
    ELSE FirstFormat(s, fmts, k + 1)

RECURSIVE DaysBeforeMonth(_, _)
DaysBeforeMonth(y, m) ==
    IF m = 1 THEN 0 ELSE DaysBeforeMonth(y, m - 1) + DaysInMonth(y, m - 1)

\* date.toordinal()
Ordinal(y, m, d) ==
    LET p == y - 1
    IN  p * 365 + (p \div 4) - (p \div 100) + (p \div 400) + DaysBeforeMonth(y, m) + d

\* decimal digits of n >= 0, at least w of them
RECURSIVE DigitsOf(_, _)
DigitsOf(n, w) ==
    IF n < 10 /\ w <= 1 THEN <<DigitChars[n + 1]>>
    ELSE DigitsOf(n \div 10, w - 1) \o <<DigitChars[(n % 10) + 1]>>

\* d.strftime("%Y-%m-%d") (the C library writes the year without padding)
Strftime(y, m, d) == DigitsOf(y, 1) \o <<"-">> \o DigitsOf(m, 2) \o <<"-">> \o DigitsOf(d, 2)

(***************************************************************************)
(* The annotated document                                                  *)
(*                                                                         *)
(* document = [text, form_fields, entities, pages]                         *)
(*   text        : string ("" when absent)                                 *)
(*   form_fields : sequence of [key, fv] in dictionary order, keys unique; *)
(*                 fv = [anchor, has_value, value]                         *)
(*   entities    : sequence of [type_, mention_text, anchor, properties],  *)
(*                 properties a sequence of [type_, mention_text]          *)
(*   pages       : sequence of [tables]; a table is [header_rows,          *)
(*                 body_rows], a row a sequence of cells, a cell the       *)
(*                 text anchor of its layout                               *)
(* A text anchor is [content, segs]; an unset string is "" and an unset    *)
(* anchor is the empty anchor, as the annotation library delivers them.    *)
(***************************************************************************)

NoAnchor == [content |-> <<>>, segs |-> <<>>]

Inline(s) == [content |-> s, segs |-> <<>>]

Segments(segs) == [content |-> <<>>, segs |-> segs]

\* truth value of an anchor object: false when nothing in it is set
AnchorTruthy(a) == a.content # <<>> \/ a.segs # <<>>

\* Python's  a or b  on strings
OrElse(a, b) == IF a # <<>> THEN a ELSE b

\* _extract_text_from_anchor
ExtractTextFromAnchor(document, text_anchor) ==
    IF text_anchor.content # <<>> THEN text_anchor.content
    ELSE IF text_anchor.segs # <<>>
    THEN Join([k \in 1..Len(text_anchor.segs) |->
                  PySlice(document.text, text_anchor.segs[k].s, text_anchor.segs[k].e)],
              <<" ">>)
    ELSE <<>>

\* the value one field-table entry yields: ret is FALSE when neither
\* branch of the code returns for it
FieldValue(document, fv) ==
    IF AnchorTruthy(fv.anchor)
    THEN [ret |-> TRUE, val |-> ExtractTextFromAnchor(document, fv.anchor)]
    ELSE IF fv.has_value THEN [ret |-> TRUE, val |-> fv.value]
    ELSE [ret |-> FALSE, val |-> <<>>]

\* field_name in document.form_fields, then document.form_fields[field_name]
ExactStage(document, field_name) ==
    LET ff == document.form_fields IN
    IF \E i \in 1..Len(ff) : ff[i].key = field_name
    THEN FieldValue(document, ff[CHOOSE i \in 1..Len(ff) : ff[i].key = field_name].fv)
    ELSE [ret |-> FALSE, val |-> <<>>]

\* the loop over form_fields.items() comparing lowercased keys
CaseInsensitiveStage(document, field_name) ==
    LET ff  == document.form_fields
        hit(i) == /\ Lower(ff[i].key) = Lower(field_name)
                  /\ FieldValue(document, ff[i].fv).ret
    IN  IF \E i \in 1..Len(ff) : hit(i)
        THEN FieldValue(document,
                 ff[CHOOSE i \in 1..Len(ff) : hit(i) /\ \A j \in 1..(i - 1) : ~hit(j)].fv)
        ELSE [ret |-> FALSE, val |-> <<>>]

\* what one entity contributes in the loop over document.entities
EntityValue(document, e, field_name) ==
    IF e.type_ = field_name \/ Lower(e.type_) = Lower(field_name)
    THEN IF e.mention_text # <<>> THEN e.mention_text
         ELSE IF AnchorTruthy(e.anchor) THEN ExtractTextFromAnchor(document, e.anchor)
         ELSE <<>>
    ELSE <<>>

EntityStage(document, field_name) ==
    LET es == document.entities
        hit(i) == EntityValue(document, es[i], field_name) # <<>>
    IN  IF \E i \in 1..Len(es) : hit(i)
        THEN EntityValue(document,
                 es[CHOOSE i \in 1..Len(es) : hit(i) /\ \A j \in 1..(i - 1) : ~hit(j)],
                 field_name)
        ELSE <<>>

\* _extract_field
ExtractField(document, field_name) ==
    LET exact == ExactStage(document, field_name)
        folded == CaseInsensitiveStage(document, field_name)
    IN  IF exact.ret THEN exact.val
        ELSE IF folded.ret THEN folded.val
        ELSE EntityStage(document, field_name)

\* the field names and entity types the two record builders ask for
FieldNames ==
    {"account_number", "address", "bank_name", "beginning_balance",
     "business_address", "business_name", "business_start_date",
     "business_type", "closing_balance", "company_name", "dba",
     "doing_business_as", "ein", "email", "email_address", "ending_balance",
     "entity_type", "funding_amount", "industry", "naics", "naics_code",
     "opening_balance", "owner", "owner_name", "owner_ssn", "period_end",
     "period_start", "phone", "phone_number", "requested_amount",
     "routing_number", "ssn", "start_date", "starting_balance",
     "statement_end_date", "statement_period_end", "statement_period_start",
     "statement_start_date", "tax_id", "tib", "time_in_business",
     "time_in_business_months"}

\* their character sequences, converted once
FieldNameChars == [n \in FieldNames |-> Chars(n)]

\* _extract_field on a field name given as a literal
Field(document, name) == ExtractField(document, FieldNameChars[name])

(***************************************************************************)
(* Table classification                                                    *)
(***************************************************************************)

\* the keywords the code looks for with  word in text
Keywords ==
    {"addition", "additions", "amount", "atm", "balance", "check paid",
     "checks paid", "credit", "daily", "date", "debit", "debit card",
     "deposit", "description", "details", "electronic", "ending", "fee",
     "memo", "posted date", "transaction date", "transaction type", "type",
     "withdrawal", "year"}

\* their character sequences, converted once
KeywordChars == [w \in Keywords |-> Chars(w)]

\* word in h
Has(h, word) == Contains(h, KeywordChars[word])

NoSection == "NONE"

\* _infer_table_section with the fee rule tested first
InferTableSectionFeesFirst(header_cells) ==
    LET h == Join(header_cells, <<" ">>) IN
    IF header_cells = <<>> THEN NoSection
    ELSE IF Has(h, "fee") THEN "FEES"
    ELSE IF Has(h, "deposit") /\ (Has(h, "addition") \/ Has(h, "additions"))
    THEN "DEPOSITS_AND_ADDITIONS"
    ELSE IF Has(h, "electronic") /\ Has(h, "withdrawal") THEN "ELECTRONIC_WITHDRAWALS"
    ELSE IF Has(h, "checks paid") \/ Has(h, "check paid") THEN "CHECKS_PAID"
    ELSE IF (Has(h, "atm") \/ Has(h, "debit card")) /\ Has(h, "withdrawal")
    THEN "ATM_DEBIT_WITHDRAWALS"
    ELSE NoSection

\* _infer_table_section
InferTableSection(header_cells) ==
    LET h == Join(header_cells, <<" ">>) IN
    IF header_cells = <<>> THEN NoSection
    ELSE IF Has(h, "deposit") /\ (Has(h, "addition") \/ Has(h, "additions"))
    THEN "DEPOSITS_AND_ADDITIONS"
    ELSE IF Has(h, "electronic") /\ Has(h, "withdrawal") THEN "ELECTRONIC_WITHDRAWALS"
    ELSE IF Has(h, "checks paid") \/ Has(h, "check paid") THEN "CHECKS_PAID"
    ELSE IF (Has(h, "atm") \/ Has(h, "debit card")) /\ Has(h, "withdrawal")
    THEN "ATM_DEBIT_WITHDRAWALS"
    ELSE IF Has(h, "fee") THEN "FEES"
    ELSE NoSection

\* the concatenation of a sequence of sequences
RECURSIVE Flatten(_)
Flatten(ss) == IF ss = <<>> THEN <<>> ELSE Head(ss) \o Flatten(Tail(ss))

\* header_cells of a table: the lowercased inline content of every cell of
\* every header row
HeaderCells(table) ==
    LET cs == Flatten(table.header_rows)
    IN  [k \in 1..Len(cs) |-> Lower(cs[k].content)]

\* a column variable that is still None
NoCol == -1

NoRoles == [date_col |-> NoCol, desc_col |-> NoCol, amount_col |-> NoCol, type_col |-> NoCol]

IsDateHeader(h) == Has(h, "date") \/ Has(h, "transaction date") \/ Has(h, "posted date")

IsDescHeader(h) == Has(h, "description") \/ Has(h, "memo") \/ Has(h, "details")

IsAmountHeader(h) ==
    \/ Has(h, "amount") \/ Has(h, "debit") \/ Has(h, "credit")
    \/ Has(h, "withdrawal") \/ Has(h, "deposit")

IsTypeHeader(h) == Has(h, "type") \/ Has(h, "transaction type")

\* one iteration of  for i, h in enumerate(header_cells)  (i is 0-based)
AssignRole(roles, i, h) ==
    IF IsDateHeader(h) THEN [roles EXCEPT !.date_col = i]
    ELSE IF IsDescHeader(h) THEN [roles EXCEPT !.desc_col = i]
    ELSE IF IsAmountHeader(h) THEN [roles EXCEPT !.amount_col = i]
    ELSE IF IsTypeHeader(h) THEN [roles EXCEPT !.type_col = i]
    ELSE roles

\* the column-role loop over header_cells[1..n]
RECURSIVE ColumnRoles(_, _)
ColumnRoles(header_cells, n) ==
    IF n = 0 THEN NoRoles
    ELSE AssignRole(ColumnRoles(header_cells, n - 1), n - 1, header_cells[n])

(***************************************************************************)
(* Transaction Extractor                                                   *)
(*                                                                         *)
(* A transaction is a record with the dictionary keys of the code; an      *)
(* optional key k is has_k plus its value.  date is [kind, s, y, m, d]:    *)
(* kind "str" for a raw string, "dt" for a datetime.                       *)
(***************************************************************************)

StrDate(s) == [kind |-> "str", s |-> s, y |-> 0, m |-> 0, d |-> 0]

DtDate(y, m, d) == [kind |-> "dt", s |-> <<>>, y |-> y, m |-> m, d |-> d]

\* cells[amount_col].replace('$', '').replace(',', '').strip() -> float
ParseAmount(s) == PyFloat(Strip(RemoveChar(RemoveChar(s, "$"), ",")))

CreditWord(s) == Has(Lower(s), "credit") \/ Has(Lower(s), "deposit")

\* the stripped inline content of every cell of a body row
RowCells(row) == [k \in 1..Len(row) |-> Strip(row[k].content)]

ColIn(col, cells) == col # NoCol /\ col < Len(cells)

\* the tx dictionary built for one body row: has_amount is FALSE when the
\* row is not appended
RowTransaction(cells, roles, section) ==
    LET amt == IF ColIn(roles.amount_col, cells)
               THEN ParseAmount(cells[roles.amount_col + 1]) ELSE FErr
    IN  [has_date |-> ColIn(roles.date_col, cells),
         date |-> StrDate(IF ColIn(roles.date_col, cells)
                          THEN cells[roles.date_col + 1] ELSE <<>>),
         has_description |-> ColIn(roles.desc_col, cells),
         description |-> IF ColIn(roles.desc_col, cells)
                         THEN cells[roles.desc_col + 1] ELSE <<>>,
         has_amount |-> amt.kind # "err",
         amount |-> PyAbs(amt),
         type |-> IF ColIn(roles.type_col, cells)
                  THEN (IF CreditWord(cells[roles.type_col + 1]) THEN "CREDIT" ELSE "DEBIT")
                  ELSE (IF GeZero(amt) THEN "CREDIT" ELSE "DEBIT"),
         has_section |-> TRUE,
         section |-> IF section # NoSection THEN section
                     ELSE IF GeZero(amt) THEN "DEPOSITS_AND_ADDITIONS"
                     ELSE "WITHDRAWALS"]

\* the transactions of body_rows[k..] of one table
RECURSIVE RowsTransactions(_, _, _, _)
RowsTransactions(rows, k, roles, section) ==
    IF k > Len(rows) THEN <<>>
    ELSE LET tx == RowTransaction(RowCells(rows[k]), roles, section)
         IN  (IF rows[k] # <<>> /\ tx.has_amount THEN <<tx>> ELSE <<>>)
             \o RowsTransactions(rows, k + 1, roles, section)

\* section and the four column variables computed for one table
ClassifyTable(table) ==
    LET hc == HeaderCells(table)
    IN  [section |-> InferTableSection(hc), roles |-> ColumnRoles(hc, Len(hc))]

TableTransactions(table) ==
    LET c == ClassifyTable(table)
    IN  RowsTransactions(table.body_rows, 1, c.roles, c.section)

\* every table of every page, in order
AllTables(document) ==
    Flatten([k \in 1..Len(document.pages) |-> document.pages[k].tables])

\* _extract_transactions
ExtractTransactions(document) ==
    LET ts == AllTables(document)
    IN  Flatten([k \in 1..Len(ts) |-> TableTransactions(ts[k])])

(***************************************************************************)
(* Balance Extractor                                                       *)
(***************************************************************************)

IsBalanceEntity(e) == Has(Lower(e.type_), "balance") \/ Has(Lower(e.type_), "daily")

NewBalance(desc) ==
    [has_description |-> TRUE, description |-> desc, has_date |-> FALSE,
     date |-> StrDate(<<>>), has_balance |-> FALSE, balance |-> FErr]

\* one iteration of  for p in e.properties
ApplyProperty(b, p) ==
    IF Has(Lower(p.type_), "date")
    THEN [b EXCEPT !.has_date = TRUE, !.date = StrDate(p.mention_text)]
    ELSE IF Has(Lower(p.type_), "balance") \/ Has(Lower(p.type_), "amount")
    THEN (IF ParseAmount(p.mention_text).kind # "err"
          THEN [b EXCEPT !.has_balance = TRUE, !.balance = ParseAmount(p.mention_text)]
          ELSE b)
    ELSE b

RECURSIVE ApplyProperties(_, _, _)
ApplyProperties(b, ps, n) ==
    IF n = 0 THEN b ELSE ApplyProperty(ApplyProperties(b, ps, n - 1), ps[n])

EntityBalance(e) == ApplyProperties(NewBalance(e.mention_text), e.properties, Len(e.properties))

\* the primary path: the loop over document.entities from index k
RECURSIVE EntityBalances(_, _)
EntityBalances(es, k) ==
    IF k > Len(es) THEN <<>>
    ELSE (IF IsBalanceEntity(es[k]) /\ EntityBalance(es[k]).has_balance
          THEN <<EntityBalance(es[k])>> ELSE <<>>)
         \o EntityBalances(es, k + 1)

\* txt of the fallback: every header cell's lowercased content plus " "
HeaderText(table) ==
    LET hc == HeaderCells(table)
    IN  Flatten([k \in 1..Len(hc) |-> hc[k] \o <<" ">>])

IsBalanceTable(table) == Has(HeaderText(table), "balance") \/ Has(HeaderText(table), "ending")

RowBalance(cs) ==
    [has_description |-> FALSE, description |-> <<>>, has_date |-> TRUE,
     date |-> StrDate(cs[1]), has_balance |-> ParseAmount(cs[2]).kind # "err",
     balance |-> ParseAmount(cs[2])]

RECURSIVE RowsBalances(_, _)
RowsBalances(rows, k) ==
    IF k > Len(rows) THEN <<>>
    ELSE (IF Len(rows[k]) >= 2 /\ RowBalance(RowCells(rows[k])).has_balance
          THEN <<RowBalance(RowCells(rows[k]))>> ELSE <<>>)
         \o RowsBalances(rows, k + 1)

\* the table-scanning fallback of _extract_daily_balances
TableBalances(document) ==
    LET ts == AllTables(document)
    IN  Flatten([k \in 1..Len(ts) |->
                   IF IsBalanceTable(ts[k]) THEN RowsBalances(ts[k].body_rows, 1)
                   ELSE <<>>])

\* _extract_daily_balances scanning the tables whatever the entities gave
ExtractDailyBalancesAlwaysScanning(document) ==
    IF document.entities = <<>> THEN <<>>
    ELSE EntityBalances(document.entities, 1) \o TableBalances(document)

\* _extract_daily_balances
ExtractDailyBalances(document) ==
    IF document.entities = <<>> THEN <<>>
    ELSE IF EntityBalances(document.entities, 1) # <<>>
    THEN EntityBalances(document.entities, 1)
    ELSE TableBalances(document)

(***************************************************************************)
(* Text Fallback Parser                                                    *)
(***************************************************************************)

\* shortest stripped line that is examined
MinLineLen == 5

\* the range an amount candidate must lie in, and the description cut
MinAmount == 10

MaxAmount == 10000000

MaxDescLen == 200

TextDateFormats == <<"%m/%d/%Y", "%m-%d-%Y", "%m/%d/%y", "%m/%d">>

\* float(a.replace(',', ''))
CandidateValue(a) == PyFloat(RemoveChar(a, ","))

\* valid: the candidates within [10, 10_000_000]; empty when the
\* conversion of any candidate raises
ValidAmounts(ams) ==
    LET InRange(a) == AbsInRange(CandidateValue(a), MinAmount * 100, MaxAmount * 100)
    IN  IF \E k \in 1..Len(ams) : CandidateValue(ams[k]).kind = "err" THEN <<>>
        ELSE SelectSeq(ams, InRange)

\* max(valid, key=lambda x: abs(float(...))): the first of the greatest
MaxAmountStr(valid) ==
    LET v(k) == CandidateValue(valid[k])
    IN  valid[CHOOSE i \in 1..Len(valid) :
                 /\ \A j \in 1..Len(valid) : ~AbsGreater(v(j), v(i))
                 /\ \A j \in 1..(i - 1) : AbsGreater(v(i), v(j))]

\* the date of a line: the first format that parses date_str, a format
\* without a year taking the current year; ok is FALSE when nothing is
\* appended for the line
LineDate(date_str, now) ==
    LET f == FirstFormat(date_str, TextDateFormats, 1)
        yearless == f.ok /\ ~f.dt.hasY
        y == IF yearless THEN now.y ELSE f.dt.Y
    IN  IF f.ok /\ f.dt.d <= DaysInMonth(y, f.dt.m)
        THEN [ok |-> TRUE, date |-> DtDate(y, f.dt.m, f.dt.d)]
        ELSE [ok |-> FALSE, date |-> DtDate(1, 1, 1)]

\* the transactions (none or one) of one line of the text
LineTransactions(raw, now) ==
    LET line  == Strip(raw)
        dm    == DateSearch(line)
        ams   == AmountFindAll(line, 1)
        valid == ValidAmounts(ams)
        amt_str == MaxAmountStr(valid)
        cut   == RFind(line, amt_str)
        desc  == IF cut > dm.end THEN Strip(PySlice(line, dm.end, cut)) ELSE <<>>
        dt    == LineDate(dm.group, now)
    IN  IF Len(line) < MinLineLen \/ ~dm.found \/ ams = <<>> \/ valid = <<>> \/ ~dt.ok
        THEN <<>>
        ELSE <<[has_date |-> TRUE, date |-> dt.date,
                has_description |-> TRUE, description |-> PySlice(desc, 0, MaxDescLen),
                has_amount |-> TRUE, amount |-> PyAbs(CandidateValue(amt_str)),
                type |-> IF Has(Lower(desc), "deposit") \/ Has(Lower(desc), "credit")
                         THEN "CREDIT" ELSE "DEBIT",
                has_section |-> FALSE, section |-> NoSection]>>

\* _parse_transactions_from_text
ParseTransactionsFromText(text, now) ==
    IF text = <<>> THEN <<>>
    ELSE LET lines == SplitLines(text)
         IN  Flatten([k \in 1..Len(lines) |-> LineTransactions(lines[k], now)])

(***************************************************************************)
(* Record Normalizer                                                       *)
(***************************************************************************)

\* the date of a record as _serialize_transactions / _serialize_balances
\* leave it: a datetime becomes its ISO string, a string stays
SerializeDate(dv) ==
    IF dv.kind = "dt" THEN StrDate(Strftime(dv.y, dv.m, dv.d)) ELSE dv

\* _serialize_transactions and _serialize_balances
Serialize(recs) ==
    [k \in 1..Len(recs) |->
        IF recs[k].has_date THEN [recs[k] EXCEPT !.date = SerializeDate(@)] ELSE recs[k]]

\* the dictionary process_bank_statement returns
StatementRecord(document, txs, balances) ==
    [account_number |-> Field(document, "account_number"),
     routing_number |-> Field(document, "routing_number"),
     bank_name |-> Field(document, "bank_name"),
     statement_period_start |->
         OrElse(Field(document, "statement_start_date"),
                OrElse(Field(document, "statement_period_start"),
                       Field(document, "period_start"))),
     statement_period_end |->
         OrElse(Field(document, "statement_end_date"),
                OrElse(Field(document, "statement_period_end"),
                       Field(document, "period_end"))),
     opening_balance |->
         OrElse(Field(document, "starting_balance"),
                OrElse(Field(document, "opening_balance"),
                       Field(document, "beginning_balance"))),
     closing_balance |->
         OrElse(Field(document, "ending_balance"), Field(document, "closing_balance")),
     transactions |-> Serialize(txs),
     daily_balances |-> Serialize(balances)]

\* time_in_business_months: None or an integer
NoMonths == [set |-> FALSE, val |-> 0]

Months(n) == [set |-> TRUE, val |-> n]

\* the dictionary _extract_form_data builds first
FormFields(document) ==
    [business_name |-> OrElse(Field(document, "business_name"), Field(document, "company_name")),
     dba |-> OrElse(Field(document, "dba"), Field(document, "doing_business_as")),
     ein |-> OrElse(Field(document, "ein"), Field(document, "tax_id")),
     owner_name |-> OrElse(Field(document, "owner_name"), Field(document, "owner")),
     owner_ssn |-> OrElse(Field(document, "owner_ssn"), Field(document, "ssn")),
     address |-> OrElse(Field(document, "address"), Field(document, "business_address")),
     phone |-> OrElse(Field(document, "phone"), Field(document, "phone_number")),
     email |-> OrElse(Field(document, "email"), Field(document, "email_address")),
     industry |-> OrElse(Field(document, "industry"), Field(document, "business_type")),
     naics_code |-> OrElse(Field(document, "naics_code"), Field(document, "naics")),
     time_in_business_months |-> NoMonths,
     start_date |-> OrElse(Field(document, "start_date"), Field(document, "business_start_date")),
     requested_amount |-> OrElse(Field(document, "requested_amount"), Field(document, "funding_amount")),
     business_type |-> OrElse(Field(document, "business_type"), Field(document, "entity_type"))]

StartDateFormats ==
    <<"%Y-%m-%d", "%m/%d/%Y", "%d/%m/%Y", "%Y/%m/%d", "%m-%d-%Y", "%d-%m-%Y",
      "%B %d, %Y", "%b %d, %Y", "%d %B %Y">>

\* int(x) for a ratio given as numerator and positive denominator:
\* truncation toward zero
TruncDiv(a, b) == IF a >= 0 THEN a \div b ELSE -((-a) \div b)

\* int((now - start_date).days / 30.44)
MonthsBetween(now, dt) ==
    TruncDiv((Ordinal(now.y, now.m, now.d) - Ordinal(dt.Y, dt.m, dt.d)) * 100, 3044)

\* the start date of the first stage: the first format that parses it
ParsedStartDate(start_date) == FirstFormat(Strip(start_date), StartDateFormats, 1)

\* the first stage of time_in_business_months (from start_date)
MonthsFromStartDate(extracted, now) ==
    IF extracted.start_date # <<>> /\ ParsedStartDate(extracted.start_date).ok
    THEN Months(MonthsBetween(now, ParsedStartDate(extracted.start_date).dt))
    ELSE extracted.time_in_business_months

\* is the second stage entered:  not extracted.get("time_in_business_months")
NeedsTextMonths(extracted) ==
    ~extracted.time_in_business_months.set \/ extracted.time_in_business_months.val = 0

\* tib: the free-text field of the second stage
TibText(document) ==
    OrElse(Field(document, "time_in_business"),
           OrElse(Field(document, "time_in_business_months"), Field(document, "tib")))

\* val: float(numbers[0]), times 12 when the text mentions years
TibValue(tib) ==
    LET v == PyFloat(FirstNumber(tib))
    IN  IF Has(Lower(tib), "year") /\ v.kind = "num"
        THEN [v EXCEPT !.mag = IF @ > MagCap \div 12 THEN MagCap ELSE @ * 12]
        ELSE v

\* does the second stage assign, and does int(val) raise OverflowError
TibAssigns(tib) == tib # <<>> /\ FirstNumber(tib) # <<>>

TibRaises(tib) == TibAssigns(tib) /\ TibValue(tib).kind = "inf"

\* int(val)
TibMonths(tib) == TibValue(tib).mag \div 100

(***************************************************************************)
(* The documents the annotation service may deliver                        *)
(***************************************************************************)

\* longest header row, most body rows, entities and field-table entries of
\* the generated documents
MaxHeaderCells == 2

MaxRows == 2

MaxEntities == 2

MaxFields == 2

\* all sequences over S of length at most n
SeqsUpTo(S, n) == UNION {[1..k -> S] : k \in 0..n}

Cell(str) == Inline(Chars(str))

Row(strs) == [k \in 1..Len(strs) |-> Cell(strs[k])]

Table(header, body) ==
    [header_rows |-> IF header = <<>> THEN <<>> ELSE <<header>>, body_rows |-> body]

OnePage(tables) == <<[tables |-> tables]>>

Doc(text, form_fields, entities, pages) ==
    [text |-> text, form_fields |-> form_fields, entities |-> entities, pages |-> pages]

Property(type_, mention) == [type_ |-> Chars(type_), mention_text |-> Chars(mention)]

Entity(type_, mention, anchor, properties) ==
    [type_ |-> Chars(type_), mention_text |-> Chars(mention), anchor |-> anchor,
     properties |-> properties]

LiteralField(str) == [anchor |-> NoAnchor, has_value |-> TRUE, value |-> Chars(str)]

AnchorField(a) == [anchor |-> a, has_value |-> FALSE, value |-> <<>>]

TextPayroll == Chars("03/14/2023 DEPOSIT PAYROLL $1,234.56")

TextLines ==
    Chars("Statement\n3/4 ATM WITHDRAWAL -50.00\n12-25-21 FEE $15\n")
    \o Chars(" 01/05/2024 credit memo 2,500.00 ref 7 \n1,,2 3/5 x\n02/29 int 12.00")

HeaderWords ==
    {"Date", "Posted Date", "Amount", "Deposits and Additions", "Fees",
     "Ending Balance"}

\* every header row of at most MaxHeaderCells cells over HeaderWords
Headers == {Row(h) : h \in SeqsUpTo(HeaderWords, MaxHeaderCells)}

ColumnHeaders ==
    {Row(<<"Date", "Description", "Amount">>),
     Row(<<"Date", "Amount", "Type">>),
     Row(<<"Electronic Withdrawals", "Memo", "Debit">>),
     Row(<<"Date", "Ending Balance">>)}

BodyRows ==
    {Row(<<"03/14/2023", "Payroll deposit", "$1,234.56">>),
     Row(<<"03/15/2023", " -50.00 ", "Debit">>),
     Row(<<"03/16/2023", "Adjustment", "nan">>),
     Row(<<"03/17/2023", "500.25">>),
     <<>>}

FixedBody ==
    <<Row(<<"03/14/2023", "1,234.56">>), Row(<<"03/15/2023", "-50.00">>)>>

\* one-table documents: every header over a fixed body, and the column
\* headers over every body of at most MaxRows rows
HeaderTables == {Table(h, FixedBody) : h \in Headers}

BodyTables == {Table(h, b) : h \in ColumnHeaders, b \in SeqsUpTo(BodyRows, MaxRows)}

PairTables ==
    {Table(Row(<<"Date", "Amount">>), FixedBody),
     Table(Row(<<"Date", "Ending Balance">>), FixedBody),
     Table(<<>>, FixedBody),
     [header_rows |-> <<Row(<<"Fees">>), Row(<<"Posted Date", "Amount">>)>>,
      body_rows |-> <<Row(<<"03/20/2023", "-3.00">>)>>]}

\* documents of several tables on one page or on two pages, and documents
\* without pages or tables
MultiPages ==
    {OnePage(<<t, u>>) : t \in PairTables, u \in PairTables}
    \cup {<<[tables |-> <<t>>], [tables |-> <<>>], [tables |-> <<u>>]>> :
             t \in PairTables, u \in PairTables}
    \cup {<<>>, OnePage(<<>>)}

BalanceEntities ==
    {Entity("daily_balance", "Daily ending balance", NoAnchor,
            <<Property("date", "03/14/2023"), Property("balance_amount", "$2,000.00")>>),
     Entity("Ending_Balance", "", NoAnchor,
            <<Property("amount", "-10.00"), Property("balance", "n/a"),
              Property("as_of_date", "03/15/2023")>>),
     Entity("daily_total", "unreadable", NoAnchor, <<Property("balance", "n/a")>>),
     Entity("account_number", "12345", NoAnchor, <<>>)}

EntityLists == SeqsUpTo(BalanceEntities, MaxEntities)

BalancePages ==
    {OnePage(<<t>>) : t \in PairTables} \cup {<<>>}
    \cup {OnePage(<<Table(Row(<<"Date", "Ending Balance">>), b)>>) :
             b \in SeqsUpTo(BodyRows, 1)}

AccountKeys == {"account_number", "Account_Number", "ACCOUNT_NUMBER"}

AccountValues ==
    {LiteralField("111"), LiteralField(""),
     AnchorField(Segments(<<[s |-> 0, e |-> 2], [s |-> 50, e |-> 60]>>)),
     AnchorField(NoAnchor)}

\* field tables of at most MaxFields entries with distinct keys
FieldTables ==
    {ff \in SeqsUpTo({[key |-> Chars(k), fv |-> v] : k \in AccountKeys, v \in AccountValues},
                     MaxFields) :
        \A i, j \in 1..Len(ff) : i # j => ff[i].key # ff[j].key}

AccountEntityLists ==
    {<<>>,
     <<Entity("ACCOUNT_NUMBER", "", NoAnchor, <<>>),
       Entity("Account_Number", "", Segments(<<[s |-> 3, e |-> 5]>>), <<>>),
       Entity("account_number", "555", NoAnchor, <<>>)>>}

\* a table whose cells are offset ranges into the document text
SegmentText == Chars("Date Amount 03/14/2023 100.00")

SegCell(s, e) == Segments(<<[s |-> s, e |-> e]>>)

SegmentTables ==
    {[header_rows |-> <<h>>, body_rows |-> <<b>>] :
        h \in {<<SegCell(0, 4), SegCell(5, 11)>>, Row(<<"Date", "Amount">>)},
        b \in {<<SegCell(12, 22), SegCell(23, 29)>>, Row(<<"03/14/2023", "100.00">>)}}

SegmentDocs == {Doc(SegmentText, <<>>, <<>>, OnePage(<<t>>)) : t \in SegmentTables}

\* the documents delivered for processor type "bank"
BankDocs ==
    {Doc(TextPayroll, <<>>, <<>>, OnePage(<<t>>)) : t \in HeaderTables}
    \cup {Doc(x, <<>>, <<>>, OnePage(<<t>>)) : x \in {<<>>, TextPayroll}, t \in BodyTables}
    \cup {Doc(x, <<>>, <<>>, p) : x \in {<<>>, TextLines}, p \in MultiPages}
    \cup {Doc(<<>>, <<>>, es, p) : es \in EntityLists, p \in BalancePages}
    \cup {Doc(TextPayroll, ff, es, <<>>) : ff \in FieldTables, es \in AccountEntityLists}
    \cup SegmentDocs

StartDates ==
    {"", "2020-01-15", "01/15/2020", "15/01/2020", " January 5, 2024 ", "5 Jan 2024",
     "2024-03-01", "Jan 20, 2024", "since 2019"}

TibTexts == {"", "5 years", "18 months", "about 2.5 Years", "n/a", "0"}

\* a time-in-business text too long for a finite float
HugeTib == [k \in 1..(FloatMaxDigits + 1) |-> "9"]

StartDateKeys == {"start_date", "Business_Start_Date"}

TibKeys == {"time_in_business", "tib"}

\* the documents delivered for processor type "form"
FormDocs ==
    {Doc(<<>>,
         <<[key |-> Chars(sk), fv |-> LiteralField(sd)],
           [key |-> Chars(tk), fv |-> tv],
           [key |-> Chars("company_name"), fv |-> LiteralField("Acme LLC")]>>,
         <<>>, <<>>) :
        sk \in StartDateKeys, sd \in StartDates, tk \in TibKeys,
        tv \in {LiteralField(t) : t \in TibTexts}
               \cup {[anchor |-> NoAnchor, has_value |-> TRUE, value |-> HugeTib]}}

\* the clock readings of datetime.now()
Nows == {[y |-> 2024, m |-> 1, d |-> 15], [y |-> 2025, m |-> 2, d |-> 28]}

\* the clock has not been read
NotRead == [y |-> 0, m |-> 0, d |-> 0]

(***************************************************************************)
(* process_form and process_bank_statement, step by step                   *)
(***************************************************************************)

VARIABLES
    pc,                 \* position in process_form / process_bank_statement
    processor_type,     \* "form" or "bank"
    document,           \* the annotated document being processed
    now,                \* what datetime.now() returned when last called
    table_classes,      \* section and column variables of every table visited
    table_transactions, \* what _extract_transactions returned
    transactions,       \* the local variable transactions
    daily_balances,     \* the local variable daily_balances
    fallback_ran,       \* was _parse_transactions_from_text called
    extracted,          \* the dictionary of _extract_form_data
    statement,          \* the dictionary process_bank_statement returns
    raised,             \* the exception that escaped, "" if none
    previous,           \* what earlier calls on the same document returned
    api_key,            \* settings.API_KEY
    request,            \* the HTTP request the endpoint handler received
    api_pc,             \* position of the endpoint handler
    reached,            \* what the handler has entered for the request
    response            \* status code of the HTTP response, 0 while there is none

vars ==
    <<pc, processor_type, document, now, table_classes, table_transactions,
      transactions, daily_balances, fallback_ran, extracted, statement, raised,
      previous, api_key, request, api_pc, reached, response>>

\* the variables of DocumentProcessor's methods
procVars ==
    <<pc, processor_type, document, now, table_classes, table_transactions,
      transactions, daily_balances, fallback_ran, extracted, statement, raised,
      previous>>

\* the variables of the endpoint handlers of main.py
apiVars == <<api_key, request, api_pc, reached, response>>

EmptyDoc == Doc(<<>>, <<>>, <<>>, <<>>)

\* no request has been received
NoRequest == [endpoint |-> "", x_api_key |-> [present |-> FALSE, value |-> ""], body |-> ""]

ApiIdle ==
    /\ request = NoRequest
    /\ api_pc = "waiting"
    /\ reached = {}
    /\ response = 0

ProcessorIdle ==
    /\ pc = "idle"
    /\ processor_type = ""
    /\ document = EmptyDoc
    /\ now = NotRead
    /\ table_classes = <<>>
    /\ table_transactions = <<>>
    /\ transactions = <<>>
    /\ daily_balances = <<>>
    /\ fallback_ran = FALSE
    /\ extracted = FormFields(EmptyDoc)
    /\ statement = StatementRecord(EmptyDoc, <<>>, <<>>)
    /\ raised = ""
    /\ previous = <<>>

Init ==
    /\ ProcessorIdle
    /\ api_key = ""
    /\ ApiIdle

\* process_document returns the annotated document
AnnotateBank ==
    /\ pc = "idle"
    /\ \E d \in BankDocs : document' = d
    /\ processor_type' = "bank"
    /\ pc' = "bank_transactions"
    /\ UNCHANGED <<now, table_classes, table_transactions, transactions, daily_balances,
                   fallback_ran, extracted, statement, raised>>
    /\ UNCHANGED <<previous, apiVars>>

AnnotateForm ==
    /\ pc = "idle"
    /\ \E d \in FormDocs : document' = d
    /\ processor_type' = "form"
    /\ pc' = "form_fields"
    /\ UNCHANGED <<now, table_classes, table_transactions, transactions, daily_balances,
                   fallback_ran, extracted, statement, raised>>
    /\ UNCHANGED <<previous, apiVars>>

\* transactions = self._extract_transactions(document)
BankTransactions ==
    /\ pc = "bank_transactions"
    /\ transactions' = ExtractTransactions(document)
    /\ table_transactions' = transactions'
    /\ table_classes' = [k \in 1..Len(AllTables(document)) |->
                            ClassifyTable(AllTables(document)[k])]
    /\ pc' = "bank_balances"
    /\ UNCHANGED <<processor_type, document, now, daily_balances, fallback_ran,
                   extracted, statement, raised>>
    /\ UNCHANGED <<previous, apiVars>>

\* daily_balances = self._extract_daily_balances(document)
BankBalances ==
    /\ pc = "bank_balances"
    /\ daily_balances' = ExtractDailyBalances(document)
    /\ pc' = "bank_fallback"
    /\ UNCHANGED <<processor_type, document, now, table_classes, table_transactions, transactions,
                   fallback_ran, extracted, statement, raised>>
    /\ UNCHANGED <<previous, apiVars>>

\* the fallback condition without its test of the table transactions
NeedsTextFallbackIgnoringTables(txs, doc) == doc.text # <<>>

\* if not transactions and document.text
NeedsTextFallback(txs, doc) == txs = <<>> /\ doc.text # <<>>

\* the text fallback is taken
BankTextFallback ==
    /\ pc = "bank_fallback"
    /\ NeedsTextFallback(transactions, document)
    /\ \E n \in Nows :
          /\ now' = n
          /\ transactions' = ParseTransactionsFromText(document.text, n)
    /\ fallback_ran' = TRUE
    /\ pc' = "bank_record"
    /\ UNCHANGED <<processor_type, document, table_classes, table_transactions, daily_balances,
                   extracted, statement, raised>>
    /\ UNCHANGED <<previous, apiVars>>

\* the text fallback is skipped
BankSkipFallback ==
    /\ pc = "bank_fallback"
    /\ ~NeedsTextFallback(transactions, document)
    /\ pc' = "bank_record"
    /\ UNCHANGED <<processor_type, document, now, table_classes, table_transactions, transactions,
                   daily_balances, fallback_ran, extracted, statement, raised>>
    /\ UNCHANGED <<previous, apiVars>>

\* the return statement of process_bank_statement
BankReturn ==
    /\ pc = "bank_record"
    /\ statement' = StatementRecord(document, transactions, daily_balances)
    /\ pc' = "returned"
    /\ UNCHANGED <<processor_type, document, now, table_classes, table_transactions, transactions,
                   daily_balances, fallback_ran, extracted, raised>>
    /\ UNCHANGED <<previous, apiVars>>

\* extracted = {...} of _extract_form_data
FormExtract ==
    /\ pc = "form_fields"
    /\ extracted' = FormFields(document)
    /\ pc' = "form_start_date"
    /\ UNCHANGED <<processor_type, document, now, table_classes, table_transactions, transactions,
                   daily_balances, fallback_ran, statement, raised>>
    /\ UNCHANGED <<previous, apiVars>>

\* if extracted.get("start_date"): ...
FormStartDate ==
    /\ pc = "form_start_date"
    /\ \E n \in Nows :
          /\ now' = n
          /\ extracted' = [extracted EXCEPT
                             !.time_in_business_months = MonthsFromStartDate(extracted, n)]
    /\ pc' = "form_tib"
    /\ UNCHANGED <<processor_type, document, table_classes, table_transactions, transactions,
                   daily_balances, fallback_ran, statement, raised>>
    /\ UNCHANGED <<previous, apiVars>>

\* if not extracted.get("time_in_business_months"): ... ; return extracted
FormTib ==
    /\ pc = "form_tib"
    /\ NeedsTextMonths(extracted)
    /\ ~TibRaises(TibText(document))
    /\ extracted' = IF TibAssigns(TibText(document))
                    THEN [extracted EXCEPT
                            !.time_in_business_months = Months(TibMonths(TibText(document)))]
                    ELSE extracted
    /\ pc' = "returned"
    /\ UNCHANGED <<processor_type, document, now, table_classes, table_transactions, transactions,
                   daily_balances, fallback_ran, statement, raised>>
    /\ UNCHANGED <<previous, apiVars>>

\* int(val) raises OverflowError, which nothing catches
FormTibRaise ==
    /\ pc = "form_tib"
    /\ NeedsTextMonths(extracted)
    /\ TibRaises(TibText(document))
    /\ raised' = "OverflowError"
    /\ pc' = "raised"
    /\ UNCHANGED <<processor_type, document, now, table_classes, table_transactions, transactions,
                   daily_balances, fallback_ran, extracted, statement>>
    /\ UNCHANGED <<previous, apiVars>>

\* the second stage is not entered; return extracted
FormReturn ==
    /\ pc = "form_tib"
    /\ ~NeedsTextMonths(extracted)
    /\ pc' = "returned"
    /\ UNCHANGED <<processor_type, document, now, table_classes, table_transactions, transactions,
                   daily_balances, fallback_ran, extracted, statement, raised>>
    /\ UNCHANGED <<previous, apiVars>>

Next ==
    \/ AnnotateBank
    \/ AnnotateForm
    \/ BankTransactions
    \/ BankBalances
    \/ BankTextFallback
    \/ BankSkipFallback
    \/ BankReturn
    \/ FormExtract
    \/ FormStartDate
    \/ FormTib
    \/ FormTibRaise
    \/ FormReturn

Spec == Init /\ [][Next]_vars

(***************************************************************************)
(* process_bank_statement called a second time on the same document        *)
(***************************************************************************)

\* documents with and without text, with and without tables
TwiceDocs ==
    {Doc(x, <<>>, <<>>, p) :
        x \in {<<>>, TextPayroll, TextLines},
        p \in {<<>>} \cup {OnePage(<<t>>) : t \in PairTables}}

\* process_document returns one of the documents above
AnnotateBankTwice ==
    /\ pc = "idle"
    /\ \E d \in TwiceDocs : document' = d
    /\ processor_type' = "bank"
    /\ pc' = "bank_transactions"
    /\ UNCHANGED <<now, table_classes, table_transactions, transactions, daily_balances,
                   fallback_ran, extracted, statement, raised, previous>>
    /\ UNCHANGED apiVars

\* the caller keeps the returned dictionary and calls process_bank_statement
\* again; process_document delivers the same document, the locals start afresh
BankCallAgain ==
    /\ pc = "returned"
    /\ processor_type = "bank"
    /\ previous = <<>>
    /\ previous' = <<statement>>
    /\ table_classes' = <<>>
    /\ table_transactions' = <<>>
    /\ transactions' = <<>>
    /\ daily_balances' = <<>>
    /\ fallback_ran' = FALSE
    /\ pc' = "bank_transactions"
    /\ UNCHANGED <<processor_type, document, now, extracted, statement, raised>>
    /\ UNCHANGED apiVars

NextTwice ==
    \/ AnnotateBankTwice
    \/ BankTransactions
    \/ BankBalances
    \/ BankTextFallback
    \/ BankSkipFallback
    \/ BankReturn
    \/ BankCallAgain

SpecTwice == Init /\ [][NextTwice]_vars

(***************************************************************************)
(* The endpoint handlers POST /process/form and POST /process/bank         *)
(***************************************************************************)

\* the configured values of settings.API_KEY ("" is the default)
ApiKeys == {"", "s3cret"}

\* the X-API-Key header of a request: absent, or sent with a value
Absent == [present |-> FALSE, value |-> ""]

Sent(v) == [present |-> TRUE, value |-> v]

ApiHeaders == {Absent} \cup {Sent(v) : v \in {"", "s3cret", "S3CRET", "guess"}}

Endpoints == {"/process/form", "/process/bank"}

\* what the request carries
Bodies ==
    {"multipart_file", "multipart_empty_file", "multipart_no_file",
     "json_storage_path", "json_no_storage_path", "invalid_json"}

Requests ==
    {[endpoint |-> ep, x_api_key |-> h, body |-> b] :
        ep \in Endpoints, h \in ApiHeaders, b \in Bodies}

\* the gate that only looks whether a header was sent
KeyRejectedWhenAbsent(key, x_api_key) == key # "" /\ ~x_api_key.present

\* _verify_api_key raises HTTPException(401)
KeyRejected(key, x_api_key) ==
    key # "" /\ (~x_api_key.present \/ x_api_key.value = "" \/ x_api_key.value # key)

Respond(status) ==
    /\ response' = status
    /\ api_pc' = "responded"

\* the route is matched and the handler is called with the header value
ApiReceive ==
    /\ api_pc = "waiting"
    /\ \E r \in Requests : request' = r
    /\ api_pc' = "verify"
    /\ UNCHANGED <<api_key, reached, response>>
    /\ UNCHANGED procVars

\* _verify_api_key(x_api_key) raises
ApiReject ==
    /\ api_pc = "verify"
    /\ KeyRejected(api_key, request.x_api_key)
    /\ Respond(401)
    /\ UNCHANGED <<api_key, request, reached>>
    /\ UNCHANGED procVars

\* _verify_api_key(x_api_key) returns; processor = DocumentProcessor()
ApiAdmit ==
    /\ api_pc = "verify"
    /\ ~KeyRejected(api_key, request.x_api_key)
    /\ reached' = reached \cup {"processor"}
    /\ api_pc' = "handler"
    /\ UNCHANGED <<api_key, request, response>>
    /\ UNCHANGED procVars

\* the request has no file or no storage_path (400), or its body is not
\* JSON (500)
ApiBadRequest ==
    /\ api_pc = "handler"
    /\ request.body \in {"multipart_no_file", "json_no_storage_path", "invalid_json"}
    /\ Respond(IF request.body = "invalid_json" THEN 500 ELSE 400)
    /\ UNCHANGED <<api_key, request, reached>>
    /\ UNCHANGED procVars

\* processor.process_form / processor.process_bank_statement is called
ApiEnter ==
    /\ api_pc = "handler"
    /\ request.body \in {"multipart_file", "multipart_empty_file", "json_storage_path"}
    /\ reached' = reached \cup {"entry_point"}
    /\ api_pc' = IF request.body = "json_storage_path" THEN "storage" ELSE "content"
    /\ UNCHANGED <<api_key, request, response>>
    /\ UNCHANGED procVars

\* content = self._read_file_content(storage_path): the read succeeds, the
\* path has no "/" (ValueError, 400) or the storage client raises (500)
ApiStorageRead ==
    /\ api_pc = "storage"
    /\ reached' = reached \cup {"storage_read"}
    /\ \/ api_pc' = "content" /\ UNCHANGED response
       \/ \E status \in {400, 500} : Respond(status)
    /\ UNCHANGED <<api_key, request>>
    /\ UNCHANGED procVars

\* if not content: raise ValueError
ApiNoContent ==
    /\ api_pc = "content"
    /\ request.body = "multipart_empty_file"
    /\ Respond(400)
    /\ UNCHANGED <<api_key, request, reached>>
    /\ UNCHANGED procVars

\* document = self.process_document(...): the annotation succeeds, the
\* processor id is not configured (ValueError, 400) or the client raises (500)
ApiAnnotate ==
    /\ api_pc = "content"
    /\ request.body # "multipart_empty_file"
    /\ reached' = reached \cup {"annotation"}
    /\ \/ api_pc' = "extract" /\ UNCHANGED response
       \/ \E status \in {400, 500} : Respond(status)
    /\ UNCHANGED <<api_key, request>>
    /\ UNCHANGED procVars

\* the extraction runs: its result is returned (200) or it raises (500)
ApiExtract ==
    /\ api_pc = "extract"
    /\ reached' = reached \cup {"extraction"}
    /\ \E status \in {200, 500} : Respond(status)
    /\ UNCHANGED <<api_key, request>>
    /\ UNCHANGED procVars

InitApi ==
    /\ ProcessorIdle
    /\ api_key \in ApiKeys
    /\ ApiIdle

NextApi ==
    \/ ApiReceive
    \/ ApiReject
    \/ ApiAdmit
    \/ ApiBadRequest
    \/ ApiEnter
    \/ ApiStorageRead
    \/ ApiNoContent
    \/ ApiAnnotate
    \/ ApiExtract

SpecApi == InitApi /\ [][NextApi]_vars

(***************************************************************************)
(* Properties                                                              *)
(***************************************************************************)

BankReturned == pc = "returned" /\ processor_type = "bank"

FormReturned == pc = "returned" /\ processor_type = "form"

\* C1: every transaction of the returned statement has amount >= 0,
\* whether it came from a table or from the text fallback.
C1_AmountNonNegative ==
    BankReturned =>
        \A k \in 1..Len(statement.transactions) :
            GeZero(statement.transactions[k].amount)

\* C2: the text fallback parser runs only when the tables gave no
\* transaction and the text is not empty; when the tables give at least
\* one transaction the returned transactions are exactly the table-derived
\* ones and the fallback has not run.
C2_FallbackOnlyWithoutTableTransactions ==
    /\ fallback_ran => table_transactions = <<>> /\ document.text # <<>>
    /\ BankReturned /\ table_transactions # <<>> =>
           ~fallback_ran /\ statement.transactions = Serialize(table_transactions)

\* C2 witness: a statement was returned from table transactions although
\* the text of the document has lines the fallback parser would accept.
C2_Witness ==
    /\ BankReturned
    /\ table_transactions # <<>>
    /\ statement.transactions = Serialize(table_transactions)
    /\ \E n \in Nows : ParseTransactionsFromText(document.text, n) # <<>>

\* C3: for the text "03/14/2023 DEPOSIT PAYROLL $1,234.56" the fallback
\* parser returns exactly one transaction: date 2023-03-14, description
\* "DEPOSIT PAYROLL", amount 1234.56, type CREDIT.
C3_PayrollLine ==
    pc = "bank_record" /\ fallback_ran /\ document.text = TextPayroll =>
        /\ Len(transactions) = 1
        /\ transactions[1].date = DtDate(2023, 3, 14)
        /\ transactions[1].description = Chars("DEPOSIT PAYROLL")
        /\ transactions[1].amount = FNum(FALSE, 123456)
        /\ transactions[1].type = "CREDIT"

\* the first non-empty string of a sequence of strings, "" if none
RECURSIVE FirstNonEmpty(_)
FirstNonEmpty(ss) ==
    IF ss = <<>> THEN <<>>
    ELSE IF Head(ss) # <<>> THEN Head(ss) ELSE FirstNonEmpty(Tail(ss))

\* C4: the resolved field is the first non-empty result of the exact-key
\* stage, the case-insensitive key stage and the entity stage, in that
\* order (checked on account_number of the returned statement).
C4_FirstNonEmptyStage ==
    BankReturned =>
        statement.account_number =
            FirstNonEmpty(<<ExactStage(document, FieldNameChars["account_number"]).val,
                            CaseInsensitiveStage(document, FieldNameChars["account_number"]).val,
                            EntityStage(document, FieldNameChars["account_number"])>>)

\* the role a header cell falls in: the first category whose keywords it has
CategoryOf(h) ==
    IF IsDateHeader(h) THEN "date"
    ELSE IF IsDescHeader(h) THEN "description"
    ELSE IF IsAmountHeader(h) THEN "amount"
    ELSE IF IsTypeHeader(h) THEN "type"
    ELSE "none"

\* the 0-based index of the leftmost header cell of a category, else NoCol
Leftmost(hc, cat) ==
    LET at == {i \in 1..Len(hc) : CategoryOf(hc[i]) = cat}
    IN  IF at = {} THEN NoCol ELSE SetMin(at) - 1

\* C5: every role ends up on the leftmost header column that matches it:
\* a later matching column does not change the assignment.
C5_RoleOnLeftmostColumn ==
    \A k \in 1..Len(table_classes) :
        LET hc == HeaderCells(AllTables(document)[k])
            r  == table_classes[k].roles
        IN  /\ r.date_col = Leftmost(hc, "date")
            /\ r.desc_col = Leftmost(hc, "description")
            /\ r.amount_col = Leftmost(hc, "amount")
            /\ r.type_col = Leftmost(hc, "type")

BalancesDone == pc \in {"bank_fallback", "bank_record"} \/ BankReturned

\* C6: when the entity path yields no balance entry (also when the
\* document has no entities), the balances are the table-scan result.
C6_TableFallbackWhenNoEntityBalances ==
    BalancesDone /\ EntityBalances(document.entities, 1) = <<>> =>
        daily_balances = TableBalances(document)

\* C7: when the entity path yields at least one balance entry, the
\* balances are exactly those entries in entity order and no table-derived
\* entry (an entry without description) is among them.
C7_EntityBalancesSuppressTables ==
    BalancesDone /\ EntityBalances(document.entities, 1) # <<>> =>
        /\ daily_balances = EntityBalances(document.entities, 1)
        /\ \A k \in 1..Len(daily_balances) : daily_balances[k].has_description

\* C7 witness: entity balances were returned for a document whose tables
\* would have given balances of their own.
C7_Witness ==
    /\ BalancesDone
    /\ Len(daily_balances) >= 2
    /\ daily_balances = EntityBalances(document.entities, 1)
    /\ TableBalances(document) # <<>>

\* C8: no exception escapes process_form or process_bank_statement's
\* extraction.
C8_NeverRaises == pc # "raised" /\ raised = ""

\* floor(a / b) for b > 0
FloorDiv(a, b) == a \div b

\* C9: when start_date parses, time_in_business_months of the returned
\* form is floor((now - parsedDate).days / 30.44), also when that is 0,
\* and never a value taken from the free-text field.
C9_MonthsFromStartDateKept ==
    FormReturned /\ ParsedStartDate(extracted.start_date).ok =>
        LET dt == ParsedStartDate(extracted.start_date).dt
            days == Ordinal(now.y, now.m, now.d) - Ordinal(dt.Y, dt.m, dt.d)
        IN  extracted.time_in_business_months = Months(FloorDiv(days * 100, 3044))

SectionLabels ==
    <<"DEPOSITS_AND_ADDITIONS", "ELECTRONIC_WITHDRAWALS", "CHECKS_PAID",
      "ATM_DEBIT_WITHDRAWALS", "FEES">>

\* does rule i of the section rules hold of the joined header text h
RuleHolds(i, h) ==
    CASE i = 1 -> Has(h, "deposit") /\ (Has(h, "addition") \/ Has(h, "additions"))
      [] i = 2 -> Has(h, "electronic") /\ Has(h, "withdrawal")
      [] i = 3 -> Has(h, "checks paid") \/ Has(h, "check paid")
      [] i = 4 -> (Has(h, "atm") \/ Has(h, "debit card")) /\ Has(h, "withdrawal")
      [] i = 5 -> Has(h, "fee")

\* the label of the lowest-numbered rule that holds, NoSection if none
LowestRule(hc) ==
    LET h  == Join(hc, <<" ">>)
        ok == {i \in 1..5 : RuleHolds(i, h)}
    IN  IF hc = <<>> \/ ok = {} THEN NoSection ELSE SectionLabels[SetMin(ok)]

\* C10: the section of every table is the label of the lowest-numbered
\* rule its lowercased, space-joined header satisfies, and no section when
\* no rule is satisfied or the table has no header cells.
C10_SectionFirstMatchWins ==
    \A k \in 1..Len(table_classes) :
        table_classes[k].section = LowestRule(HeaderCells(AllTables(document)[k]))

\* C10 witness: a table whose header satisfies rule 1 and rule 5 was
\* classified DEPOSITS_AND_ADDITIONS.
C10_Witness ==
    \E k \in 1..Len(table_classes) :
        LET h == Join(HeaderCells(AllTables(document)[k]), <<" ">>)
        IN  /\ RuleHolds(1, h)
            /\ RuleHolds(5, h)
            /\ table_classes[k].section = "DEPOSITS_AND_ADDITIONS"

\* C11: a second call of process_bank_statement on the same document
\* returns what the first call returned, whatever the clock reads.
C11_SameOutputTwice ==
    BankReturned /\ previous # <<>> => statement = previous[1]

\* the request's X-API-Key header is missing or differs from the key
WrongKey == ~request.x_api_key.present \/ request.x_api_key.value # api_key

\* C12: the key is verified before anything else is entered; with a
\* non-empty API_KEY a request whose header is missing or different is
\* answered 401 and reaches no processor, storage read, annotation or
\* extraction; with an empty API_KEY no request is answered 401.
C12_GateBeforeEntryPoints ==
    /\ api_pc = "verify" => reached = {}
    /\ api_pc # "waiting" /\ api_key # "" /\ WrongKey =>
           /\ reached = {}
           /\ api_pc \in {"verify", "responded"}
           /\ api_pc = "responded" => response = 401
    /\ api_key = "" => response # 401

\* C12 witness: a request whose header differs only in case from the
\* configured key was answered 401 with nothing reached.
C12_Witness ==
    /\ api_pc = "responded"
    /\ api_key = "s3cret"
    /\ request.x_api_key = Sent("S3CRET")
    /\ request.body = "json_storage_path"
    /\ response = 401
    /\ reached = {}

\* a cell carrying its resolved text inline
ResolvedCell(doc, c) == Inline(ExtractTextFromAnchor(doc, c))

ResolvedRows(doc, rows) ==
    [i \in 1..Len(rows) |-> [j \in 1..Len(rows[i]) |-> ResolvedCell(doc, rows[i][j])]]

\* the same table with the text of every cell given inline
ResolvedTable(doc, table) ==
    [header_rows |-> ResolvedRows(doc, table.header_rows),
     body_rows |-> ResolvedRows(doc, table.body_rows)]

\* C13: the column roles and the transactions of every table are those of
\* the same table with every cell's anchor resolved to inline text.
C13_CellsResolved ==
    processor_type = "bank" /\ pc # "bank_transactions" =>
        LET ts == AllTables(document)
        IN  /\ \A k \in 1..Len(table_classes) :
                  table_classes[k].roles =
                      ClassifyTable(ResolvedTable(document, ts[k])).roles
            /\ table_transactions =
                  Flatten([k \in 1..Len(ts) |->
                              TableTransactions(ResolvedTable(document, ts[k]))])

\* a segment whose offsets lie in the text, start before end
InRange(text, seg) == 0 <= seg.s /\ seg.s <= seg.e /\ seg.e <= Len(text)

\* the slices of the in-range segments, in order
RECURSIVE ValidSlices(_, _)
ValidSlices(text, segs) ==
    IF segs = <<>> THEN <<>>
    ELSE (IF InRange(text, Head(segs))
          THEN <<SubSeq(text, Head(segs).s + 1, Head(segs).e)>> ELSE <<>>)
         \o ValidSlices(text, Tail(segs))

\* C14: a Segments anchor resolves to the slices of its in-range segments
\* joined by one space, an out-of-range segment adding neither text nor a
\* separator (checked on account_number resolved from an exact-key field
\* whose anchor has segments only).
C14_SegmentsJoined ==
    BankReturned =>
        \A i \in 1..Len(document.form_fields) :
            LET f == document.form_fields[i]
            IN  f.key = Chars("account_number") /\ f.fv.anchor.content = <<>>
                    /\ f.fv.anchor.segs # <<>> =>
                statement.account_number =
                    Join(ValidSlices(document.text, f.fv.anchor.segs), <<" ">>)

\* the type the rule gives a row: the type column decides whenever the
\* table has one, the sign of the amount otherwise
ClaimedType(cells, roles) ==
    IF roles.type_col # NoCol
    THEN (IF roles.type_col < Len(cells) /\ CreditWord(cells[roles.type_col + 1])
          THEN "CREDIT" ELSE "DEBIT")
    ELSE (IF GeZero(ParseAmount(cells[roles.amount_col + 1])) THEN "CREDIT" ELSE "DEBIT")

\* the claimed types of the rows of body_rows[k..] that yield a transaction
RECURSIVE ClaimedTypes(_, _, _)
ClaimedTypes(rows, k, roles) ==
    IF k > Len(rows) THEN <<>>
    ELSE LET cells == RowCells(rows[k])
         IN  (IF rows[k] # <<>> /\ RowTransaction(cells, roles, NoSection).has_amount
              THEN <<ClaimedType(cells, roles)>> ELSE <<>>)
             \o ClaimedTypes(rows, k + 1, roles)

\* C15: every table-derived transaction of a table with a type column is
\* CREDIT exactly when the row's type text has "credit" or "deposit", also
\* for rows too short to have that cell; the sign of the amount decides
\* only in tables without a type column.
C15_TypeFromTypeColumn ==
    processor_type = "bank" /\ pc # "bank_transactions" =>
        LET ts == AllTables(document)
        IN  [k \in 1..Len(table_transactions) |-> table_transactions[k].type] =
                Flatten([k \in 1..Len(table_classes) |->
                            ClaimedTypes(ts[k].body_rows, 1, table_classes[k].roles)])

====
